---------------------------- MODULE Spec2Model ----------------------------
(***************************************************************************)
(* A model of ReactTextareaAutocomplete (src/src/Textarea.jsx; the older   *)
(* copy src/unnamed/part_001 differs in _onSelect and has no onSelect      *)
(* handler on the textarea).                                               *)
(*                                                                         *)
(* Texts are sequences of one-character strings.  A nullable value of the  *)
(* code is Null (the empty tuple) or Some(v) (the one-element tuple <<v>>);*)
(* the nullable currentTrigger is the string NoTrigger or a trigger key.   *)
(*                                                                         *)
(* Every handler of the component runs to completion on the UI event loop, *)
(* so each is one action.  A handler run from a React event has its        *)
(* setState calls batched: this.state keeps its old value until the        *)
(* handler returns, and setState callbacks run after the flush.  A promise *)
(* callback and the escape-key listener run outside a batch, where         *)
(* setState applies at once.                                               *)
(*                                                                         *)
(* The host callbacks onChange and onCaretPositionChange are configured    *)
(* (the `if (onChange)` guards are taken).  Trigger keys hold no character *)
(* that is special inside a RegExp character class, and candidates are     *)
(* strings.                                                                *)
(***************************************************************************)
EXTENDS Integers, Sequences, FiniteSets, TLC

(* ----------------------------- bounds --------------------------------- *)

\* longest text a raw edit or a props update delivers, the worked examples
\* apart
MaxLen == 1
\* most fetches in flight at once
MaxPending == 2
\* largest minChar prop explored
MaxMinChar == 1
\* longest text the tokenizer is tried on by itself
MaxTokenLen == 4
\* longest text the splicer is tried on by itself
MaxSpliceLen == 3

\* defaultProps.minChar
DefaultMinChar == 1

(* ----------------------------- characters ----------------------------- *)

\* the characters raw edits and props updates are made of
Chars == {":", "a", " "}

\* the characters of the texts the tokenizer and the splicer are tried on
\* by themselves
AllChars == Chars \cup {"$"}

\* \w of the tokenizer pattern: the letters, digits and underscore in use
WordChars == {"a", "d", "e", "h", "i", "l", "o", "p", "r", "s", "w", "x", "y", "_"}

IsWord(ch) == ch \in WordChars

\* \s and \S of _onSelect: the only whitespace character in use is the space
IsWhitespace(ch) == ch = " "

Null == <<>>

Some(v) == <<v>>

NoTrigger == "null"

RECURSIVE TextsOfLen(_, _)
TextsOfLen(chars, n) ==
  IF n = 0 THEN {<<>>}
  ELSE {Append(t, ch) : t \in TextsOfLen(chars, n - 1), ch \in chars}

TextsUpTo(chars, n) == UNION {TextsOfLen(chars, k) : k \in 0..n}

(* ------------------------- worked examples ---------------------------- *)

Hello == <<"h","e","l","l","o"," ",":","a"," ","w","o","r","l","d">>

HiHa == <<"h","i"," ",":","h","a">>

Happy == <<"h","a","p","p","y">>

Sad == <<"s","a","d">>

X == <<"x">>

\* a text with two "$$" before its token and a trigger character after it
Dollars == <<"$","$","$","$"," ",":","a"," ",":">>

\* the (text, caret) pairs of the worked examples
ExampleEdits == {<<Hello, 8>>, <<HiHa, 6>>}

\* what a raw edit can deliver: e.target.value and e.target.selectionEnd
Edits(chars, n) ==
  {<<t, c>> \in TextsUpTo(chars, n) \X (0..n) : c <= Len(t)}

EditInputs == Edits(Chars, MaxLen) \cup ExampleEdits

\* the arrays of candidates a data provider resolves to
Results == {<<>>, <<Happy, Sad>>}

\* a value a data provider resolves to: its typeof-and-isArray kind, and its
\* items when it is an array
Array(items) == [type |-> "array", items |-> items]

\* a resolved value that is no array and has no length: a non-zero number
NotAnArray == [type |-> "number", items |-> <<>>]

Resolved == {Array(r) : r \in Results} \cup {NotAnArray}

\* !v.length
NoLength(v) == v.type # "array" \/ Len(v.items) = 0

\* what a shown list can hold
ShownResults == {<<X>>, <<Happy, Sad>>}

(* ----------------------------- props ---------------------------------- *)

\* output: item => `__${item}__`
OutputWrap(item, trig) == <<"_", "_">> \o item \o <<"_", "_">>

\* a trigger prop: key -> settings; output is "none" or the name of an
\* output function; dataProvider and component are given by their typeof
TriggerDefault ==
  [k \in {":"} |->
     [output |-> "none", dataProvider |-> "function", component |-> "function"]]

TriggerOutput ==
  [k \in {":"} |->
     [output |-> "wrap", dataProvider |-> "function", component |-> "function"]]

Configs == {TriggerDefault, TriggerOutput}

\* trigger props with other keys: "$" alone, and ":" together with "$"
TriggerDollar ==
  [k \in {"$"} |->
     [output |-> "none", dataProvider |-> "function", component |-> "function"]]

TriggerBoth ==
  [k \in {":", "$"} |->
     [output |-> "none", dataProvider |-> "function", component |-> "function"]]

\* the trigger props the host changes between.  Props are immutable, so
\* two trigger props of different keys are different objects, and a
\* comparison of identity that finds a difference between equal ones
\* rebuilds the same pattern
KeyConfigs == {TriggerDefault, TriggerDollar, TriggerBoth}

\* trigger props of the wrong shape: a data provider that is no function, a
\* component that is no function, a key that is not one character
TriggerNoProvider ==
  [k \in {":"} |->
     [output |-> "none", dataProvider |-> "undefined", component |-> "function"]]

TriggerNoComponent ==
  [k \in {":"} |->
     [output |-> "none", dataProvider |-> "function", component |-> "undefined"]]

TriggerEmptyKey ==
  [k \in {""} |->
     [output |-> "none", dataProvider |-> "function", component |-> "function"]]

Malformed == {TriggerNoProvider, TriggerNoComponent, TriggerEmptyKey}

\* what the trigger variable holds when the host passes no trigger
NoTriggerProp == [k \in {} |-> TriggerDefault[":"]]

Builds == {"Textarea.jsx", "part_001"}

\* the props without a default that the component cannot do without
RequiredProps == {"loadingComponent", "trigger"}

VARIABLES
  build,           \* which copy of the component is running
  given,           \* which of the required props the host passes
  trigger,         \* props.trigger, when the host passes it
  minChar,         \* props.minChar
  tokenRegExp,     \* the character class of this.tokenRegExp
  value,           \* state.value, which is also the textarea's value
  selectionEnd,    \* state.selectionEnd
  currentTrigger,  \* state.currentTrigger
  actualToken,     \* state.actualToken
  data,            \* state.data
  dataLoading,     \* state.dataLoading
  component,       \* state.component: NoTrigger or the key whose component it is
  caret,           \* textareaRef.selectionEnd
  selectQueued,    \* a select event of the textarea awaits delivery
  pending,         \* the data providers' promises not yet settled, in issue order
  last             \* the handler that ran last and what it did

vars == <<build, given, trigger, minChar, tokenRegExp, value, selectionEnd,
          currentTrigger, actualToken, data, dataLoading, component, caret,
          selectQueued, pending, last>>

props == <<build, given, trigger, minChar>>

\* what a handler did: the host callbacks and platform calls it made, in
\* order ("value" is the new state.value being in place); the offset it
\* gave setCaretPosition or onCaretPositionChange; the token it gave the
\* data provider; the message of the error it threw, or "none"; the message
\* of the prop-type warning logged for props.trigger, or "null"
Did(op, effects) ==
  [op |-> op, effects |-> effects, caretArg |-> 0, token |-> <<>>,
   error |-> "none", warning |-> "null"]

(* --------------------------- pure helpers ----------------------------- *)

Min(a, b) == IF a < b THEN a ELSE b

\* String.prototype.slice(0, n) for n >= 0
Slice(text, n) == SubSeq(text, 1, Min(n, Len(text)))

\* new RegExp(`[${Object.keys(trigger).join('')}]\\w*$`): its character class
BuildTokenRegExp(trig) == DOMAIN trig

\* tokenRegExp.exec(text): the leftmost match of [class]\w*$, or Null
TokenExec(class, text) ==
  LET starts == {i \in 1..Len(text) :
                   /\ text[i] \in class
                   /\ \A j \in (i + 1)..Len(text) : IsWord(text[j])}
  IN IF starts = {} THEN Null
     ELSE LET i == CHOOSE s \in starts : \A o \in starts : s <= o
          IN SubSeq(text, i, Len(text))

(* ------------------------ component methods --------------------------- *)

\* _getSuggestions without its test of data.length
GetSuggestionsAnyLength ==
  IF currentTrigger = NoTrigger \/ data = Null THEN Null ELSE data

\* _getSuggestions
GetSuggestions ==
  IF currentTrigger = NoTrigger \/ data = Null \/ NoLength(data[1])
  THEN Null
  ELSE data

\* _closeAutocomplete: state.data after it
CloseAutocomplete == IF GetSuggestions = Null THEN data ELSE Null

\* _getCurrentTriggerSettings
GetCurrentTriggerSettings ==
  IF currentTrigger = NoTrigger \/ currentTrigger \notin DOMAIN trigger
  THEN Null
  ELSE Some(trigger[currentTrigger])

\* _getTextToReplace with the closing trigger character of the default
\* left out
GetTextToReplaceOpenEnded(item) ==
  IF currentTrigger = NoTrigger \/ GetCurrentTriggerSettings = Null
  THEN <<>>
  ELSE IF GetCurrentTriggerSettings[1].output = "wrap"
       THEN OutputWrap(item, currentTrigger)
       ELSE <<currentTrigger>> \o item

\* _getTextToReplace, applied to a string item
GetTextToReplace(item) ==
  IF currentTrigger = NoTrigger \/ GetCurrentTriggerSettings = Null
  THEN <<>>
  ELSE IF GetCurrentTriggerSettings[1].output = "wrap"
       THEN OutputWrap(item, currentTrigger)
       ELSE <<currentTrigger>> \o item \o <<currentTrigger>>

\* render: the overlay, the list and the loader
OverlayShown == dataLoading \/ GetSuggestions # Null

ListShown == GetSuggestions # Null /\ component # NoTrigger

LoaderShown == dataLoading

\* the session states of the specification
Closed == ~ListShown /\ ~LoaderShown

Open == ListShown /\ ~LoaderShown

(* ----------------------------- splicing ------------------------------ *)

\* the while loop of _onSelect: the end of the token at or after offset c
RECURSIVE EndOfToken(_, _)
EndOfToken(text, c) ==
  IF c < Len(text) /\ ~IsWhitespace(text[c + 1])
  THEN EndOfToken(text, c + 1)
  ELSE c

\* textToModify.search(/\S*$/): the start of the trailing non-whitespace run
StartOfToken(text) ==
  LET starts == {i \in 0..Len(text) :
                   \A j \in (i + 1)..Len(text) : ~IsWhitespace(text[j])}
  IN CHOOSE s \in starts : \A o \in starts : s <= o

\* String.prototype.indexOf
IndexOf(text, pat) ==
  LET at == {i \in 0..(Len(text) - Len(pat)) :
               SubSeq(text, i + 1, i + Len(pat)) = pat}
  IN IF at = {} THEN -1 ELSE CHOOSE i \in at : \A o \in at : i <= o

\* GetSubstitution of String.prototype.replace for a string pattern, which
\* has no captures: in the replacement, $$ stands for $, $& for the match,
\* $` for the text before it and $' for the text after it; any other $ is
\* itself
RECURSIVE GetSubstitution(_, _, _, _)
GetSubstitution(rep, matched, before, after) ==
  IF rep = <<>> THEN <<>>
  ELSE IF rep[1] = "$" /\ Len(rep) >= 2 /\ rep[2] \in {"$", "&", "`", "'"}
  THEN (CASE rep[2] = "$" -> <<"$">>
          [] rep[2] = "&" -> matched
          [] rep[2] = "`" -> before
          [] rep[2] = "'" -> after)
       \o GetSubstitution(SubSeq(rep, 3, Len(rep)), matched, before, after)
  ELSE <<rep[1]>> \o GetSubstitution(Tail(rep), matched, before, after)

\* String.prototype.replace(pat, rep) with a string pattern and a string
\* replacement: the first occurrence only
StrReplace(text, pat, rep) ==
  LET i == IndexOf(text, pat)
      before == SubSeq(text, 1, i)
      after == SubSeq(text, i + Len(pat) + 1, Len(text))
  IN IF i < 0 THEN text
     ELSE before \o GetSubstitution(rep, pat, before, after) \o after

\* the locals of _onSelect
TextToModify(text, c) == Slice(text, EndOfToken(text, c))

\* the new caret position counted from the recorded caret offset, not from
\* the start of the token
NewCaretPositionFromCaret(text, c, newToken) == c + Len(newToken)

NewCaretPosition(text, c, newToken) ==
  StartOfToken(TextToModify(text, c)) + Len(newToken)

ModifiedText(text, c, newToken) ==
  SubSeq(TextToModify(text, c), 1, StartOfToken(TextToModify(text, c)))
    \o newToken

\* the value _onSelect sets
SplicedValue(text, c, newToken) ==
  StrReplace(text, TextToModify(text, c), ModifiedText(text, c, newToken))

(* ----------------------------- actions -------------------------------- *)

\* the tokenizer of _changeHandler: lastToken, with '' and null both Null
LastToken(text, c) == TokenExec(tokenRegExp, Slice(text, c))

\* lastToken.length < minChar in place of <=
NoTokenLax(lastToken) == lastToken = Null \/ Len(lastToken) < minChar

\* lastToken.length <= minChar + 1 in place of <= minChar
NoTokenStrict(lastToken) == lastToken = Null \/ Len(lastToken) <= minChar + 1

\* if (!lastToken || lastToken.length <= minChar)
NoToken(lastToken) == lastToken = Null \/ Len(lastToken) <= minChar

\* triggerChars.find(a => a === lastToken[0]) || null
FindTrigger(lastToken) ==
  IF lastToken[1] \in DOMAIN trigger THEN lastToken[1] ELSE NoTrigger

\* the trigger character left on the token given to the data provider
ActualTokenWhole(lastToken) == lastToken

\* lastToken.slice(1)
ActualToken(lastToken) == Tail(lastToken)

\* what _changeHandler tells the host before it touches the state
ChangeNotifications == <<"onChange", "onCaretPositionChange">>

\* the data provider called before the host is told of the edit
ChangeEffectsFetchFirst(fetch) ==
  IF fetch THEN <<"dataProvider">> \o ChangeNotifications
  ELSE ChangeNotifications

\* the calls of _changeHandler in order: the data provider is called by
\* _getValuesFromProvider, the callback of the handler's last setState
ChangeEffects(fetch) ==
  IF fetch THEN ChangeNotifications \o <<"dataProvider">>
  ELSE ChangeNotifications

\* _changeHandler on a raw edit delivering (text, c)
ChangeHandler(text, c) ==
  LET lastToken == LastToken(text, c)
      told == [Did("change", ChangeEffects(FALSE)) EXCEPT !.caretArg = c]
  IN /\ value' = text
     /\ caret' = c
     /\ UNCHANGED <<props, tokenRegExp, component, selectQueued>>
     /\ IF NoToken(lastToken)
        THEN /\ data' = CloseAutocomplete
             /\ last' = told
             /\ UNCHANGED <<selectionEnd, currentTrigger, actualToken,
                            dataLoading, pending>>
        ELSE IF FindTrigger(lastToken) = NoTrigger
        THEN /\ last' = told
             /\ UNCHANGED <<selectionEnd, currentTrigger, actualToken, data,
                            dataLoading, pending>>
        ELSE \* the setState callback _getValuesFromProvider
             /\ selectionEnd' = c
             /\ currentTrigger' = FindTrigger(lastToken)
             /\ actualToken' = ActualToken(lastToken)
             /\ UNCHANGED data
             /\ IF trigger[FindTrigger(lastToken)].dataProvider # "function"
                THEN /\ last' = [told EXCEPT !.error =
                            "RTA: Trigger provider has to be a function!"]
                     /\ UNCHANGED <<dataLoading, pending>>
                ELSE /\ Len(pending) < MaxPending
                     /\ dataLoading' = TRUE
                     /\ pending' = Append(pending,
                          [trigger |-> FindTrigger(lastToken),
                           component |-> trigger[FindTrigger(lastToken)].component,
                           stale |-> FALSE])
                     /\ last' = [told EXCEPT
                          !.effects = ChangeEffects(TRUE),
                          !.token = ActualToken(lastToken)]

\* the promises left when the i-th settles; when it resolves, the ones
\* issued before it are stale from then on (stale is no field of the code:
\* it records that a fetch issued later has already resolved)
Settle(i, resolved) ==
  [j \in 1..(Len(pending) - 1) |->
     IF j < i
     THEN [pending[j] EXCEPT !.stale = @ \/ resolved]
     ELSE pending[j + 1]]

\* the then-callback storing data.slice(1): the first candidate is lost
StoredDataRest(result) ==
  Some([result EXCEPT !.items = SubSeq(@, 2, Len(@))])

\* what the then-callback of _getValuesFromProvider stores as state.data
StoredData(result) == Some(result)

\* typeof providedData in the then-callback: providedData is the promise
\* the callback was attached to, not the value it resolved to
TypeofProvidedData == "object"

\* the error the then-callback of the i-th promise throws, or "none"; the
\* catch-callback throws it again, to no one
ThenError(i) ==
  IF TypeofProvidedData # "object"
  THEN "RTA: Trigger provider has to provide an array!"
  ELSE IF pending[i].component # "function"
  THEN "RTA: Component should be defined!"
  ELSE "none"

\* the then-callback of _getValuesFromProvider: the i-th promise resolves
FetchResolve(i, result) ==
  /\ pending' = Settle(i, TRUE)
  /\ last' = [Did("resolve", <<>>) EXCEPT !.error = ThenError(i)]
  /\ IF ThenError(i) = "none"
     THEN /\ data' = StoredData(result)
          /\ dataLoading' = FALSE
          /\ component' = pending[i].trigger
     ELSE UNCHANGED <<data, dataLoading, component>>
  /\ UNCHANGED <<props, tokenRegExp, value, selectionEnd, currentTrigger,
                 actualToken, caret, selectQueued>>

\* the catch-callback of _getValuesFromProvider: the i-th promise rejects,
\* and the error thrown there reaches no one
FetchReject(i) ==
  /\ pending' = Settle(i, FALSE)
  /\ last' = [Did("reject", <<>>) EXCEPT !.error = "RTA: dataProvider fails"]
  /\ UNCHANGED <<props, tokenRegExp, value, selectionEnd, currentTrigger,
                 actualToken, data, dataLoading, component, caret,
                 selectQueued>>

\* the escape-key listener the constructor registers
Escape ==
  /\ data' = CloseAutocomplete
  /\ last' = Did("esc", <<>>)
  /\ UNCHANGED <<props, tokenRegExp, value, selectionEnd, currentTrigger,
                 actualToken, dataLoading, component, caret, selectQueued,
                 pending>>

\* the callback of _onSelect without its onChange call
SelectEffectsSilent ==
  IF build = "part_001"
  THEN <<"value", "dispatchEvent", "setCaretPosition", "onCaretPositionChange">>
  ELSE <<"value", "dispatchEvent", "setCaretPosition">>

\* the callback of _onSelect repositioning the caret before it calls onChange
SelectEffectsCaretFirst ==
  IF build = "part_001"
  THEN <<"value", "setCaretPosition", "onCaretPositionChange",
         "dispatchEvent", "onChange">>
  ELSE <<"value", "setCaretPosition", "dispatchEvent", "onChange">>

\* the callback _onSelect gives setState: what it does after the new value
\* is in place
SelectEffects ==
  IF build = "part_001"
  THEN <<"value", "dispatchEvent", "onChange", "setCaretPosition",
         "onCaretPositionChange">>
  ELSE <<"value", "dispatchEvent", "onChange", "setCaretPosition">>

\* _onSelect, called by the list with the text to replace of a shown item
OnSelect(item) ==
  LET newToken == GetTextToReplace(item)
      newValue == SplicedValue(value, selectionEnd, newToken)
      position == NewCaretPosition(value, selectionEnd, newToken)
  IN /\ ListShown
     /\ value' = newValue
     /\ dataLoading' = FALSE
     /\ data' = CloseAutocomplete
     \* setCaretPosition: focus and setSelectionRange
     /\ caret' = Min(position, Len(newValue))
     /\ selectQueued' = (build = "Textarea.jsx")
     /\ last' = [Did("select", SelectEffects) EXCEPT
                   !.caretArg = Min(position, Len(newValue))]
     /\ UNCHANGED <<props, tokenRegExp, selectionEnd, currentTrigger,
                    actualToken, component, pending>>

\* _selectHandler without its call of onCaretPositionChange
SelectHandlerSilent(c) ==
  /\ build = "Textarea.jsx"
  /\ c # caret \/ selectQueued
  /\ caret' = c
  /\ selectQueued' = FALSE
  /\ last' = [Did("caret", <<>>) EXCEPT !.caretArg = c]
  /\ UNCHANGED <<props, tokenRegExp, value, selectionEnd, currentTrigger,
                 actualToken, data, dataLoading, component, pending>>

\* _selectHandler: the textarea's select event, after the user moved the
\* caret to c or after setSelectionRange put it there
SelectHandler(c) ==
  /\ build = "Textarea.jsx"
  /\ c # caret \/ selectQueued
  /\ caret' = c
  /\ selectQueued' = FALSE
  /\ last' = [Did("caret", <<"onCaretPositionChange">>) EXCEPT !.caretArg = c]
  /\ UNCHANGED <<props, tokenRegExp, value, selectionEnd, currentTrigger,
                 actualToken, data, dataLoading, component, pending>>

\* _update without its rebuilding of tokenRegExp
UpdateKeepsPattern(nextValue, nextTrigger) ==
  /\ value' = nextValue
  /\ tokenRegExp' = tokenRegExp
  /\ trigger' = nextTrigger
  /\ caret' = IF nextValue = value THEN caret ELSE Len(nextValue)
  /\ last' = Did("update", <<>>)
  /\ UNCHANGED <<build, given, minChar, selectionEnd, currentTrigger,
                 actualToken, data, dataLoading, component, selectQueued,
                 pending>>

\* componentWillReceiveProps and _update with nextProps.value = nextValue
\* and nextProps.trigger = nextTrigger
Update(nextValue, nextTrigger) ==
  /\ value' = nextValue
  /\ tokenRegExp' = IF nextTrigger # trigger
                    THEN BuildTokenRegExp(nextTrigger)
                    ELSE tokenRegExp
  /\ trigger' = nextTrigger
  \* the textarea puts the caret at the end of a value it is given
  /\ caret' = IF nextValue = value THEN caret ELSE Len(nextValue)
  /\ last' = Did("update", <<>>)
  /\ UNCHANGED <<build, given, minChar, selectionEnd, currentTrigger,
                 actualToken, data, dataLoading, component, selectQueued,
                 pending>>

\* triggerPropsCheck, the prop-type validator of props.trigger: the message
\* of the Error it returns, or "null"
TriggerPropsCheck ==
  IF "trigger" \notin given
  THEN "Invalid prop trigger. Prop missing."
  ELSE IF \E k \in DOMAIN trigger : Len(k) # 1
  THEN "Invalid prop trigger. Keys of the object has to be string."
  ELSE IF \E k \in DOMAIN trigger : trigger[k].component # "function"
  THEN "Invalid prop trigger: component should be defined."
  ELSE IF \E k \in DOMAIN trigger : trigger[k].dataProvider # "function"
  THEN "Invalid prop trigger: dataProvider should be defined."
  ELSE "null"

\* the element is created, which logs what the prop-type validators return,
\* and the constructor runs on the state of the class field initializer.
\* Object.keys(trigger) comes before the tests of loadingComponent and of
\* trigger; a trigger the host passes is an object, so the test of trigger
\* finds nothing
Constructor ==
  /\ last.op = "create"
  /\ LET warned == [Did("init", <<>>) EXCEPT !.warning = TriggerPropsCheck]
     IN IF "trigger" \notin given
        THEN /\ last' = [warned EXCEPT !.error = "TypeError"]
             /\ UNCHANGED tokenRegExp
        ELSE /\ tokenRegExp' = BuildTokenRegExp(trigger)
             /\ last' = IF "loadingComponent" \notin given
                        THEN [warned EXCEPT !.error =
                                "RTA: loadingComponent is not defined"]
                        ELSE warned
  /\ UNCHANGED <<props, value, selectionEnd, currentTrigger, actualToken,
                 data, dataLoading, component, caret, selectQueued, pending>>

\* the state the constructor leaves
Constructed ==
  /\ tokenRegExp = BuildTokenRegExp(trigger)
  /\ value = <<>>
  /\ selectionEnd = 0
  /\ currentTrigger = NoTrigger
  /\ actualToken = <<>>
  /\ data = Null
  /\ dataLoading = FALSE
  /\ component = NoTrigger
  /\ caret = 0
  /\ selectQueued = FALSE
  /\ pending = <<>>
  /\ last = Did("init", <<>>)

\* the component of Textarea.jsx with the default output, just constructed
Init ==
  /\ build = "Textarea.jsx"
  /\ given = RequiredProps
  /\ trigger = TriggerDefault
  /\ minChar \in 0..MaxMinChar
  /\ Constructed

Next ==
  \/ \E e \in EditInputs : ChangeHandler(e[1], e[2])
  \/ \E i \in DOMAIN pending, v \in Resolved : FetchResolve(i, v)
  \/ \E i \in DOMAIN pending : FetchReject(i)
  \/ Escape
  \/ \E r \in Results, k \in 1..2 :
       k <= Len(r) /\ data = Some(Array(r)) /\ OnSelect(r[k])
  \/ selectQueued /\ SelectHandler(caret)
  \/ \E v \in TextsUpTo(Chars, MaxLen) : Update(v, trigger)

Spec == Init /\ [][Next]_vars

(* ---------------- the tokenizer and the splicer by themselves --------- *)

\* a component just constructed, with any minChar, takes one raw edit
TokenizerInit ==
  /\ build \in Builds
  /\ given = RequiredProps
  /\ trigger \in Configs
  /\ minChar \in 0..MaxMinChar
  /\ Constructed

TokenizerNext ==
  /\ last.op = "init"
  /\ \E e \in Edits(AllChars, MaxTokenLen) : ChangeHandler(e[1], e[2])

SpecTokenizer == TokenizerInit /\ [][TokenizerNext]_vars

\* a component showing a list has one of the shown items selected.  It got
\* there by a raw edit that left a token just longer than minChar before
\* the caret offset it recorded, a resolution, and a props update that put
\* any text in place of the edited one
SplicerInit ==
  /\ build \in Builds
  /\ given = RequiredProps
  /\ trigger \in Configs
  /\ minChar \in 0..MaxMinChar
  /\ tokenRegExp = BuildTokenRegExp(trigger)
  /\ value \in TextsUpTo(AllChars, MaxSpliceLen) \cup {Hello, HiHa, Dollars}
  /\ selectionEnd \in (minChar + 1)..(MaxSpliceLen + 1) \cup {6, 7, 8}
  /\ currentTrigger = ":"
  /\ actualToken = [i \in 1..minChar |-> "a"]
  /\ data \in {Some(Array(r)) : r \in ShownResults}
  /\ dataLoading = FALSE
  /\ component = ":"
  /\ caret = Len(value)
  /\ selectQueued = FALSE
  /\ pending = <<>>
  /\ last = Did("update", <<>>)

SplicerNext ==
  \/ \E r \in ShownResults, k \in 1..2 :
       k <= Len(r) /\ data = Some(Array(r)) /\ OnSelect(r[k])
  \/ selectQueued /\ SelectHandler(caret)

SpecSplicer == SplicerInit /\ [][SplicerNext]_vars

(* ----------------------- the caret and its reports -------------------- *)

\* the component of Textarea.jsx taking raw edits, resolutions, selections
\* and the select events of the textarea: those the user raises by moving
\* the caret anywhere in the text, and the one a splice has left queued
CaretNext ==
  \/ \E e \in EditInputs : ChangeHandler(e[1], e[2])
  \/ \E i \in DOMAIN pending, r \in Results : FetchResolve(i, Array(r))
  \/ \E r \in Results, k \in 1..2 :
       k <= Len(r) /\ data = Some(Array(r)) /\ OnSelect(r[k])
  \/ \E c \in 0..Len(value) : SelectHandler(c)

SpecCaret == Init /\ [][CaretNext]_vars

(* ------------------------ changes of the props ----------------------- *)

\* the component of Textarea.jsx, constructed with the default trigger,
\* taking props updates that change the value and the trigger, raw edits
\* of texts made of the trigger characters and a word character, and
\* resolutions
PropsNext ==
  \/ \E v \in TextsUpTo({"a"}, MaxLen), t \in KeyConfigs : Update(v, t)
  \/ \E e \in Edits({":", "$", "a"}, MaxLen) : ChangeHandler(e[1], e[2])
  \/ \E i \in DOMAIN pending, r \in Results : FetchResolve(i, Array(r))

SpecProps == Init /\ [][PropsNext]_vars

(* ------------------------- the constructor ---------------------------- *)

\* an element about to be constructed, with any of the required props
\* passed or not and a trigger of any shape: the state is what the class
\* field initializer gives, and there is no tokenRegExp yet
ConstructorInit ==
  /\ build \in Builds
  /\ given \in SUBSET RequiredProps
  /\ trigger \in (IF "trigger" \in given THEN Configs \cup Malformed
                  ELSE {NoTriggerProp})
  /\ minChar \in 0..MaxMinChar
  /\ tokenRegExp = {}
  /\ value = <<>>
  /\ selectionEnd = 0
  /\ currentTrigger = NoTrigger
  /\ actualToken = <<>>
  /\ data = Null
  /\ dataLoading = FALSE
  /\ component = NoTrigger
  /\ caret = 0
  /\ selectQueued = FALSE
  /\ pending = <<>>
  /\ last = Did("create", <<>>)

\* the construction, and after one that threw nothing a raw edit and the
\* resolution of its fetch
ConstructorNext ==
  \/ Constructor
  \/ /\ last.op = "init"
     /\ last.error = "none"
     /\ \E e \in EditInputs : ChangeHandler(e[1], e[2])
  \/ /\ last.op = "change"
     /\ \E i \in DOMAIN pending, v \in Resolved : FetchResolve(i, v)

SpecConstructor == ConstructorInit /\ [][ConstructorNext]_vars

(* ------------------------------ claims -------------------------------- *)

\* C1: a fetch that resolves after a fetch issued later than it has already
\* resolved does not overwrite the candidates of the session.
C1_StaleResolutionKeepsData ==
  [][\A i \in DOMAIN pending, v \in Resolved :
       (FetchResolve(i, v) /\ pending[i].stale) => data' = data]_vars

\* C2: the escape key closes the session in every state, a fetch in flight
\* or not, and the fetch that resolves next stores no candidates and opens
\* no list.
C2_CancelClosesForGood ==
  [][/\ Escape => Closed'
     /\ \A i \in DOMAIN pending, v \in Resolved :
          (last.op = "esc" /\ FetchResolve(i, v)) =>
             (data' = data /\ Closed')]_vars

\* the end and the start of the replaced range as the specification gives
\* them: the smallest index at or after c at which text has a whitespace
\* character, or the length of text; the start of the longest run of
\* non-whitespace characters ending there
RangeEnd(text, c) ==
  CHOOSE e \in c..Len(text) :
    /\ e = Len(text) \/ IsWhitespace(text[e + 1])
    /\ \A o \in c..(e - 1) : ~IsWhitespace(text[o + 1])

RangeStart(text, end) ==
  CHOOSE b \in 0..end :
    /\ \A j \in (b + 1)..end : ~IsWhitespace(text[j])
    /\ b = 0 \/ IsWhitespace(text[b])

\* C3: selecting a candidate with replacement rep, on text T with recorded
\* caret offset c <= Len(T), gives T[0,start) + rep + T[end,Len(T)) and
\* puts the caret at start + Len(rep).
C3_SpliceReplacesTokenRange ==
  [][\A r \in ShownResults, k \in 1..2 :
       (/\ k <= Len(r)
        /\ data = Some(Array(r))
        /\ selectionEnd <= Len(value)
        /\ OnSelect(r[k]))
       => LET rep == GetTextToReplace(r[k])
              end == RangeEnd(value, selectionEnd)
              start == RangeStart(value, end)
          IN /\ value' = SubSeq(value, 1, start) \o rep
                           \o SubSeq(value, end + 1, Len(value))
             /\ caret' = start + Len(rep)]_vars

HelloSpliced ==
  <<"h","e","l","l","o"," ","_","_","x","_","_"," ","w","o","r","l","d">>

\* the selection of the worked example: "hello :a world", recorded caret
\* offset 8, a candidate whose replacement is "__x__"
HelloSelection ==
  /\ value = Hello
  /\ selectionEnd = 8
  /\ GetTextToReplace(X) = <<"_", "_", "x", "_", "_">>
  /\ OnSelect(X)

\* C4 as stated: on "hello :a world" with the recorded caret offset 8,
\* selecting the candidate whose replacement is "__x__" gives
\* "hello __x__ world" and the caret offset 13.
C4_HelloExample ==
  [][HelloSelection => (value' = HelloSpliced /\ caret' = 13)]_vars

\* C4 amended: it gives "hello __x__ world" and the caret offset 11, the
\* offset just after the replacement.
C4_HelloExampleCaret11 ==
  [][HelloSelection => (value' = HelloSpliced /\ caret' = 11)]_vars

C4_Witness ==
  /\ last.op = "select"
  /\ value = HelloSpliced
  /\ selectionEnd = 8
  /\ caret = 11

\* the last raw edit issued a fetch: the tokenizer gave a match
FetchIssued ==
  /\ last.op = "change"
  /\ \E i \in DOMAIN last.effects : last.effects[i] = "dataProvider"

\* the longest run of non-whitespace characters of text ending at offset c
TrailingRun(text, c) ==
  LET b == CHOOSE s \in 0..c :
             /\ \A j \in (s + 1)..c : ~IsWhitespace(text[j])
             /\ s = 0 \/ IsWhitespace(text[s])
  IN SubSeq(text, b + 1, c)

\* C5 as stated: a raw edit gives a match exactly if the longest run of
\* non-whitespace characters ending at the caret starts with a trigger
\* character and is longer than minChar.
C5_MatchIffTriggerRun ==
  last.op = "change" =>
    (FetchIssued <=>
       LET run == TrailingRun(value, caret)
       IN /\ run # <<>>
          /\ run[1] \in DOMAIN trigger
          /\ Len(run) > minChar)

\* the text before offset c ends with a trigger character followed by word
\* characters only, more than minChar characters in all
ValidTokenAt(text, c) ==
  \E k \in 1..c :
    /\ text[k] \in DOMAIN trigger
    /\ \A j \in (k + 1)..c : IsWord(text[j])
    /\ c - k + 1 > minChar

\* C5 amended: a raw edit gives a match exactly if the text before the
\* caret ends with a trigger character followed by word characters only,
\* more than minChar characters in all.
C5_MatchIffTriggerWord ==
  last.op = "change" => (FetchIssued <=> ValidTokenAt(value, caret))

\* a match inside a run that does not start with a trigger character
C5_Witness ==
  /\ FetchIssued
  /\ TrailingRun(value, caret)[1] \notin DOMAIN trigger

HiHappy == <<"h","i"," ",":","h","a","p","p","y",":">>

\* the replacement text the specification gives for an item
Formatted(item) ==
  IF trigger[currentTrigger].output = "none"
  THEN <<currentTrigger>> \o item \o <<currentTrigger>>
  ELSE OutputWrap(item, currentTrigger)

\* C6: the replacement text spliced in for a selected candidate is the
\* output of the active trigger's output function when it has one and
\* otherwise the candidate between two trigger characters; on "hi :ha"
\* (caret 6) with the default, selecting "happy" gives "hi :happy:" and the
\* caret offset 10.
C6_ReplacementText ==
  [][\A r \in ShownResults, k \in 1..2 :
       (k <= Len(r) /\ data = Some(Array(r)) /\ OnSelect(r[k]))
       => /\ value' = SplicedValue(value, selectionEnd, Formatted(r[k]))
          /\ last'.caretArg =
               Min(NewCaretPosition(value, selectionEnd, Formatted(r[k])),
                   Len(value'))
          /\ (value = HiHa /\ selectionEnd = 6 /\ r[k] = Happy
                /\ trigger = TriggerDefault)
             => (value' = HiHappy /\ caret' = 10)]_vars

C6_Witness ==
  /\ last.op = "select"
  /\ trigger = TriggerDefault
  /\ value = HiHappy
  /\ caret = 10

\* how often a handler made a call
Calls(name) ==
  Cardinality({i \in DOMAIN last.effects : last.effects[i] = name})

\* C7: a raw edit and a selection each call onChange exactly once; a fetch
\* settlement, a cancellation and a props update never call it.
C7_OnChangeOncePerEdit ==
  Calls("onChange") = IF last.op \in {"change", "select"} THEN 1 ELSE 0

\* a selection, which an edit and a resolution came before
C7_Witness == last.op = "select" /\ Calls("onChange") = 1

\* where in the last handler's effects a call stands; 0 if it was not made
Pos(name) ==
  IF Calls(name) = 0 THEN 0
  ELSE CHOOSE i \in DOMAIN last.effects : last.effects[i] = name

C9_ValidTokenStartsLoading ==
  (last.op = "change" /\ ValidTokenAt(value, caret)) =>
    /\ dataLoading
    /\ OverlayShown
    /\ ~Closed
    /\ pending # <<>>
    /\ ~pending[Len(pending)].stale

C9_Witness ==
  /\ last.op = "change"
  /\ ValidTokenAt(value, caret)
  /\ Len(pending) = 1
  /\ data = Null

\* C10: when the only outstanding fetch resolves with a non-empty sequence,
\* loading is false and the candidates shown are that sequence.
C10_ResolutionOpens ==
  [][\A i \in DOMAIN pending, r \in Results :
       (FetchResolve(i, Array(r)) /\ Len(r) > 0 /\ Len(pending) = 1)
       => (Open' /\ ~dataLoading' /\ GetSuggestions' = Some(Array(r)))]_vars

C10_Witness ==
  /\ last.op = "resolve"
  /\ pending = <<>>
  /\ Open
  /\ GetSuggestions = Some(Array(<<Happy, Sad>>))

\* C11: a selection leaves the session Closed, and a fetch that was in
\* flight when the candidate was selected and resolves next leaves it
\* Closed.
C11_SelectionClosesForGood ==
  [][/\ \A r \in Results, k \in 1..2 :
          (k <= Len(r) /\ data = Some(Array(r)) /\ OnSelect(r[k])) => Closed'
     /\ \A i \in DOMAIN pending, v \in Resolved :
          (last.op = "select" /\ FetchResolve(i, v)) => Closed']_vars

\* C12: when a fetch resolves with an empty array the session is Closed:
\* neither the list nor the loader is displayed, other fetches in flight or
\* not.
C12_EmptyResultCloses ==
  [][\A i \in DOMAIN pending :
       FetchResolve(i, Array(<<>>)) =>
         (Closed' /\ ~ListShown' /\ ~LoaderShown' /\ ~OverlayShown')]_vars

\* an empty result arrives while another fetch is still in flight
C12_Witness ==
  /\ last.op = "resolve"
  /\ last.error = "none"
  /\ data = Some(Array(<<>>))
  /\ pending # <<>>
  /\ Closed

\* the last raw edit started or continued a session: it activated a
\* trigger and issued a fetch
SessionStarted == FetchIssued /\ currentTrigger # NoTrigger

\* C13 as stated: a raw edit starts or continues a session only if the
\* partial token, the text typed after the trigger character, is longer
\* than minChar.
C13_PartialTokenExceedsMinChar ==
  SessionStarted => Len(last.token) > minChar

\* C13 amended: a raw edit starts or continues a session only if the token
\* with its trigger character is longer than minChar, that is, only if the
\* partial token has at least minChar characters; the partial token is the
\* text between the trigger character and the caret.
C13_TokenExceedsMinChar ==
  SessionStarted =>
    /\ Len(last.token) + 1 > minChar
    /\ actualToken = last.token
    /\ caret > Len(last.token)
    /\ value[caret - Len(last.token)] = currentTrigger
    /\ SubSeq(value, caret - Len(last.token) + 1, caret) = last.token

\* a session started on a partial token of exactly minChar characters
C13_Witness ==
  /\ SessionStarted
  /\ minChar = DefaultMinChar
  /\ Len(last.token) = minChar

\* C14: on every raw edit the host's onChange has been called, and it was
\* called before the data provider if the edit issued a fetch.
C14_OnChangeBeforeFetch ==
  last.op = "change" =>
    /\ Calls("onChange") = 1
    /\ Calls("dataProvider") > 0 => Pos("onChange") < Pos("dataProvider")

\* an edit that issued a fetch while another one was in flight
C14_Witness ==
  /\ FetchIssued
  /\ Len(pending) > 1
  /\ Pos("onChange") < Pos("dataProvider")

\* C15: loading is true once a fetch is dispatched, and loading is false
\* once the only outstanding fetch has settled, by resolving or by
\* rejecting.
C15_LoadingFollowsFetch ==
  [][/\ FetchIssued' => dataLoading'
     /\ \A i \in DOMAIN pending :
          (/\ Len(pending) = 1
           /\ FetchReject(i) \/ \E v \in Resolved : FetchResolve(i, v))
          => ~dataLoading']_vars

\* C16: when a fetch resolves to a value that is no array, the error saying
\* so is thrown and the value is not stored as state.data.
C16_NonArrayRejected ==
  [][\A i \in DOMAIN pending :
       FetchResolve(i, NotAnArray) =>
         /\ last'.error = "RTA: Trigger provider has to provide an array!"
         /\ data' # Some(NotAnArray)]_vars

\* the configuration errors the constructor and the validator of trigger
\* have messages for
ConfigurationErrors ==
  {"RTA: loadingComponent is not defined",
   "RTA: trigger is not defined",
   "Invalid prop trigger. Prop missing.",
   "Invalid prop trigger. Keys of the object has to be string.",
   "Invalid prop trigger: component should be defined.",
   "Invalid prop trigger: dataProvider should be defined."}

\* every required prop is passed, every key of trigger is one character and
\* every entry has a data provider and a component that are functions
ValidConfiguration ==
  /\ given = RequiredProps
  /\ \A k \in DOMAIN trigger :
       /\ Len(k) = 1
       /\ trigger[k].dataProvider = "function"
       /\ trigger[k].component = "function"

\* C17: constructing the component with loadingComponent absent, trigger
\* absent or a malformed trigger throws a configuration error, and throws
\* nothing else.
C17_InvalidConfigurationFailsFast ==
  (last.op = "init" /\ ~ValidConfiguration) =>
    last.error \in ConfigurationErrors

C19_TriggerNoneIffClosed == (currentTrigger = NoTrigger) <=> Closed

\* C20: a raw edit that leaves no valid token before the caret leaves the
\* session Closed, and a fetch that was in flight at that edit and resolves
\* next leaves it Closed.
C20_NoMatchCloses ==
  [][/\ (last'.op = "change" /\ ~ValidTokenAt(value', caret')) => Closed'
     /\ \A i \in DOMAIN pending, v \in Resolved :
          (/\ last.op = "change"
           /\ ~ValidTokenAt(value, caret)
           /\ FetchResolve(i, v))
          => Closed']_vars

\* text holds a trigger character immediately followed by a character that
\* is no whitespace
TriggerThenNonWhitespace(text) ==
  \E i \in 1..(Len(text) - 1) :
    text[i] \in DOMAIN trigger /\ ~IsWhitespace(text[i + 1])

\* C21: after a selection whose replacement holds no trigger character
\* immediately followed by a non-whitespace character, the tokenizer finds
\* no match in the spliced text truncated at the caret offset the splice
\* produced.
C21_SpliceLeavesNoToken ==
  [][\A r \in ShownResults, k \in 1..2 :
       (/\ k <= Len(r)
        /\ data = Some(Array(r))
        /\ ~TriggerThenNonWhitespace(GetTextToReplace(r[k]))
        /\ OnSelect(r[k]))
       => ~ValidTokenAt(value', caret')]_vars

\* where the token before offset c starts: at a trigger character that is
\* followed by word characters only up to c
TokenStart(text, c) ==
  CHOOSE k \in 1..c :
    /\ text[k] \in DOMAIN trigger
    /\ \A j \in (k + 1)..c : IsWord(text[j])

\* C22: a raw edit that leaves a valid token before the caret calls the
\* data provider exactly once, whatever fetches are in flight: the fetch is
\* for the trigger that is the first character of the token and is given
\* the rest of the token.  A raw edit that leaves no valid token issues no
\* fetch.
C22_OneFetchPerValidEdit ==
  [][last'.op = "change" =>
       IF ValidTokenAt(value', caret')
       THEN LET k == TokenStart(value', caret')
            IN /\ Calls("dataProvider")' = 1
               /\ Len(pending') = Len(pending) + 1
               /\ SubSeq(pending', 1, Len(pending)) = pending
               /\ pending'[Len(pending')].trigger = value'[k]
               /\ last'.token = SubSeq(value', k + 1, caret')
       ELSE /\ Calls("dataProvider")' = 0
            /\ pending' = pending]_vars

\* the same valid edit a second time, the fetch of the first in flight
C22_Witness ==
  /\ last.op = "change"
  /\ Len(pending) = 2
  /\ value = HiHa
  /\ last.token = <<"h", "a">>
  /\ Calls("dataProvider") = 1

\* C23: after any props updates the characters the tokenizer pattern takes
\* as the start of a token are the keys of the current trigger prop, and a
\* raw edit issues a fetch exactly if it leaves a valid token of a current
\* key before the caret.
C23_PatternFollowsTrigger ==
  /\ tokenRegExp = DOMAIN trigger
  /\ last.op = "change" =>
       /\ FetchIssued <=> ValidTokenAt(value, caret)
       /\ FetchIssued => currentTrigger \in DOMAIN trigger

\* a props update has replaced the key ":" by "$": an edit leaving "$"
\* before the caret issues a fetch
C23_Witness ==
  /\ trigger = TriggerDollar
  /\ FetchIssued
  /\ currentTrigger = "$"
  /\ value = <<"$">>

\* C24: loading is true exactly if a fetch that was issued has not settled
\* yet, here in the states a resolution leaves: when one of two fetches in
\* flight resolves, loading stays true.
C24_LoadingIffFetchInFlight ==
  [][\A i \in DOMAIN pending, v \in Resolved :
       FetchResolve(i, v) => (dataLoading' <=> (pending' # <<>>))]_vars

\* C25: whenever the list is displayed, the recorded caret offset lies
\* within the text, and the text before that offset ends with the active
\* trigger character followed by the recorded partial token.
C25_ShownListFitsText ==
  ListShown =>
    /\ selectionEnd <= Len(value)
    /\ selectionEnd > Len(actualToken)
    /\ value[selectionEnd - Len(actualToken)] = currentTrigger
    /\ SubSeq(value, selectionEnd - Len(actualToken) + 1, selectionEnd)
         = actualToken

=============================================================================
